---- MODULE Spec2Model ----
(***************************************************************************)
(* ConcurrentVector.h of milvus segcore: ThreadSafeVector (a deque of      *)
(* chunks behind a shared_mutex with an atomic published size) and         *)
(* ConcurrentVectorImpl (the chunked logical array on top of it).          *)
(*                                                                         *)
(* Every access to shared state (size_, mutex_, vec_, chunk contents) is   *)
(* one step of the calling thread; thread-local arithmetic is folded into  *)
(* the neighbouring step.                                                  *)
(***************************************************************************)
EXTENDS Integers, Sequences, FiniteSets, TLC

\* ---------------------------------------------------------------- bounds
NumThreads == 2
\* element_offset + element_count, and grow targets, range over 0..MaxElements
MaxElements == 3
\* chunk_size_ ranges over 1..MaxChunkSize
MaxChunkSize == 2
\* dim ranges over 1..MaxDim
MaxDim == 2
\* grow_to_at_least and set_data calls started in one behaviour
MaxCalls == 2
\* the single-threaded specification: its elements, chunk sizes and calls
SeqMaxElements == 8
SeqMaxChunkSize == 4
SeqMaxCalls == 1
\* chunk indices below zero that its readers pass
SeqBelow == 1
\* the specification with fairness: its elements and its growing calls
FairMaxElements == 2
FairMaxCalls == 2
\* the packed binary specification: bit widths range over 1..MaxBitWidth; one
\* chunk size and one element count beyond the small ones
MaxBitWidth == 24
BinChunkSize == 100
BinElements == 250

Threads == 1..NumThreads
NoThread == 0
NoRef == 0
\* a reference that designates no chunk of vec_
WildRef == -1

VARIABLES
    chunk_size_,    \* VectorBase::chunk_size_
    Dim,            \* ConcurrentVectorImpl::Dim
    binary_dim_,    \* ConcurrentVector<BinaryVector>::binary_dim_ (0: another layout)
    size_,          \* ThreadSafeVector::size_ (atomic)
    vec_,           \* ThreadSafeVector::vec_ : sequence of [addr, data]
    mutex_,         \* ThreadSafeVector::mutex_ : [excl, shared]
    allocated,      \* number of Chunk objects constructed so far (next address - 1)
    aborted,        \* a fatal assertion has fired
    pc,             \* per thread: position in the code
    call,           \* per thread: the public call in progress or just returned
    size,           \* per thread: parameter size of emplace_to_at_least
    index,          \* per thread: parameter index of ThreadSafeVector::operator[]
    ref,            \* per thread: the Chunk& that operator[] returned
    sd,             \* per thread: locals of set_data
    fill,           \* per thread: parameters of fill_chunk
    result,         \* per thread: value returned by get_element / num_chunk
    ncalls,         \* history: grow_to_at_least and set_data calls started
    written,        \* history: element -> <<thread, position in its buffer>> of the
                    \* last set_data whose range covers the element
    max_requested,  \* history: largest element count any growth was asked for
    max_returned,   \* history: largest element count of a growth that has returned
    ret_at_start    \* history, per thread: max_returned when its call started

vars == <<chunk_size_, Dim, binary_dim_, size_, vec_, mutex_, allocated, aborted, pc, call, size,
          index, ref, sd, fill, result, ncalls, written, max_requested,
          max_returned, ret_at_start>>

shared_vars == <<size_, vec_, mutex_, allocated>>
config_vars == <<chunk_size_, Dim, binary_dim_>>

\* ------------------------------------------------------------ pure helpers
Max(a, b) == IF a >= b THEN a ELSE b

\* C++ integer division and remainder truncate toward zero
CDiv(a, b) == IF a >= 0 THEN a \div b ELSE -((-a) \div b)
CMod(a, b) == a - b * CDiv(a, b)

\* utils/tools.h upper_div(value, align): the number of align-sized groups covering value
upper_div(value, align) == CDiv(value + align - 1, align)

\* a value-initialized component of a fresh chunk
DefaultValue == <<0, 0>>

\* what a read outside every chunk buffer yields
Garbage == <<-1, -1>>

\* the source buffer thread t passes to set_data: component j (0-based)
Source(t, j) == <<t, j + 1>>

\* Chunk(Dim * chunk_size_): boost::container::vector of n value-initialized components
Chunk(n) == [p \in 1..n |-> DefaultValue]

NoCall == [name |-> "none", offset |-> 0, count |-> 0]
NoFill == [chunk_id |-> 0, chunk_offset |-> 0, element_count |-> 0, source_offset |-> 0]
NoSd   == [chunk_id |-> 0, chunk_offset |-> 0, element_count |-> 0, source_offset |-> 0,
           stage |-> "none"]

\* ------------------------------------------------------------ construction
\* ConcurrentVectorImpl(dim, chunk_size): Dim(is_scalar ? 1 : dim) and its assertion;
\* body is the assertion in the body of the derived class's constructor
ConcurrentVectorImpl(is_scalar, dim, chunk_size, body) ==
    /\ chunk_size_ = chunk_size
    /\ Dim = (IF is_scalar THEN 1 ELSE dim)
    /\ aborted = ~((IF is_scalar THEN dim = 1 ELSE dim # 1) /\ body)
    /\ size_ = 0
    /\ vec_ = <<>>
    /\ mutex_ = [excl |-> NoThread, shared |-> {}]
    /\ allocated = 0

ThreadsInit ==
    /\ pc = [t \in Threads |-> "idle"]
    /\ call = [t \in Threads |-> NoCall]
    /\ size = [t \in Threads |-> 0]
    /\ index = [t \in Threads |-> 0]
    /\ ref = [t \in Threads |-> NoRef]
    /\ sd = [t \in Threads |-> NoSd]
    /\ fill = [t \in Threads |-> NoFill]
    /\ result = [t \in Threads |-> <<>>]
    /\ ncalls = 0
    /\ written = [i \in {} |-> <<0, 0>>]
    /\ max_requested = 0
    /\ max_returned = 0
    /\ ret_at_start = [t \in Threads |-> 0]

\* ConcurrentVector<Type>(chunk_size): the scalar layout
ConcurrentVector(chunk_size) ==
    /\ ConcurrentVectorImpl(TRUE, 1, chunk_size, TRUE)
    /\ binary_dim_ = 0

\* ConcurrentVector<FloatVector>(dim, chunk_size)
ConcurrentVectorFloat(dim, chunk_size) ==
    /\ ConcurrentVectorImpl(FALSE, dim, chunk_size, TRUE)
    /\ binary_dim_ = 0

\* ConcurrentVector<BinaryVector>(dim, chunk_size): binary_dim_(dim),
\* ConcurrentVectorImpl(dim / 8, chunk_size), then the assertion dim % 8 == 0
ConcurrentVectorBinary(dim, chunk_size) ==
    /\ binary_dim_ = dim
    /\ ConcurrentVectorImpl(FALSE, CDiv(dim, 8), chunk_size, CMod(dim, 8) = 0)

Init ==
    /\ \E chunk_size \in 1..MaxChunkSize : ConcurrentVector(chunk_size)
    /\ ThreadsInit

InitSeq ==
    /\ \E chunk_size \in 1..SeqMaxChunkSize :
          \/ ConcurrentVector(chunk_size)
          \/ \E dim \in 1..MaxDim : ConcurrentVectorFloat(dim, chunk_size)
    /\ ThreadsInit

InitBin ==
    /\ \E dim \in 1..MaxBitWidth :
          \E chunk_size \in (1..MaxChunkSize) \cup {BinChunkSize} :
              ConcurrentVectorBinary(dim, chunk_size)
    /\ ThreadsInit

\* ------------------------------------------------------- caller discipline
\* The elements that a thread's call, in progress or just returned, reads or
\* writes outside any lock.
Touches(u) ==
    IF call[u].name = "set_data"
    THEN call[u].offset .. (call[u].offset + call[u].count - 1)
    ELSE IF call[u].name = "get_element" THEN {call[u].offset}
    ELSE {}

Writes(u) ==
    IF call[u].name = "set_data" THEN Touches(u) ELSE {}

\* set_data copies outside any lock: callers keep concurrent accesses to one
\* element apart (no write overlaps another thread's write or read in progress).
NoRace(t, to_write, to_read) ==
    \A u \in Threads \ {t} :
        /\ Touches(u) \cap to_write = {}
        /\ Writes(u) \cap to_read = {}

\* ------------------------------------------------------------------ returns
\* the call returns: the thread is back in its caller's code, its locals gone
Return(t) ==
    /\ pc' = [pc EXCEPT ![t] = "returned"]
    /\ size' = [size EXCEPT ![t] = 0]
    /\ index' = [index EXCEPT ![t] = 0]
    /\ sd' = [sd EXCEPT ![t] = NoSd]
    /\ fill' = [fill EXCEPT ![t] = NoFill]

StartCall(t, name, offset, count, res) ==
    /\ ~aborted
    /\ pc[t] = "idle"
    /\ ncalls' = IF name \in {"grow_to_at_least", "set_data"} THEN ncalls + 1 ELSE ncalls
    /\ written' = IF name = "set_data"
                  THEN [i \in DOMAIN written \cup (offset .. (offset + count - 1)) |->
                           IF i >= offset /\ i < offset + count
                           THEN <<t, i - offset>>
                           ELSE written[i]]
                  ELSE written
    /\ call' = [call EXCEPT ![t] = [name |-> name, offset |-> offset, count |-> count]]
    /\ ret_at_start' = [ret_at_start EXCEPT ![t] = max_returned]
    /\ ref' = [ref EXCEPT ![t] = NoRef]
    /\ result' = [result EXCEPT ![t] = res]

\* ----------------------------------------- ConcurrentVectorImpl::grow_to_at_least
\* mutant: the target is taken as growth beyond the chunks already published
chunk_count_grow_by(element_count) == size_ + upper_div(element_count, chunk_size_)

\* mutant: floor plus one, wrong on exact multiples of chunk_size_
chunk_count_floor_plus_one(element_count) == CDiv(element_count, chunk_size_) + 1

\* auto chunk_count = upper_div(element_count, chunk_size_)
chunk_count(element_count) == upper_div(element_count, chunk_size_)

\* the call chunks_.emplace_to_at_least(chunk_count, Dim * chunk_size_)
grow_to_at_least(t, element_count) ==
    /\ size' = [size EXCEPT ![t] = chunk_count(element_count)]
    /\ pc' = [pc EXCEPT ![t] = "emplace_check"]
    /\ max_requested' = Max(max_requested, element_count)

\* a caller invokes grow_to_at_least(element_count)
GrowCall(t, element_count) ==
    /\ StartCall(t, "grow_to_at_least", 0, element_count, <<>>)
    /\ grow_to_at_least(t, element_count)
    /\ UNCHANGED <<shared_vars, config_vars, aborted, index, sd, fill, max_returned>>

\* the entry of fill_chunk(chunk_id, chunk_offset, element_count, source, source_offset)
fill_chunk(t, chunk_id, chunk_offset, element_count, source_offset) ==
    /\ fill' = [fill EXCEPT ![t] = [chunk_id |-> chunk_id, chunk_offset |-> chunk_offset,
                                    element_count |-> element_count,
                                    source_offset |-> source_offset]]
    /\ pc' = [pc EXCEPT ![t] = "fill_chunk"]

\* mutant: the first partition takes a whole chunk's worth of elements
SetDataSplit_full_first(t) ==
    /\ LET chunk_id == CDiv(call[t].offset, chunk_size_)
           chunk_offset == CMod(call[t].offset, chunk_size_)
           element_count == call[t].count
       IN  IF chunk_offset + element_count <= chunk_size_
           THEN /\ sd' = [sd EXCEPT ![t] = [chunk_id |-> chunk_id,
                          chunk_offset |-> chunk_offset, element_count |-> element_count,
                          source_offset |-> 0, stage |-> "only"]]
                /\ fill_chunk(t, chunk_id, chunk_offset, element_count, 0)
           ELSE /\ sd' = [sd EXCEPT ![t] = [chunk_id |-> chunk_id,
                          chunk_offset |-> chunk_offset, element_count |-> element_count,
                          source_offset |-> 0, stage |-> "first"]]
                /\ fill_chunk(t, chunk_id, chunk_offset, chunk_size_, 0)

\* chunk_id, chunk_offset, source_offset = 0; "only first" or the first partition
SetDataSplit(t) ==
    /\ LET chunk_id == CDiv(call[t].offset, chunk_size_)
           chunk_offset == CMod(call[t].offset, chunk_size_)
           element_count == call[t].count
       IN  IF chunk_offset + element_count <= chunk_size_
           THEN /\ sd' = [sd EXCEPT ![t] = [chunk_id |-> chunk_id,
                          chunk_offset |-> chunk_offset, element_count |-> element_count,
                          source_offset |-> 0, stage |-> "only"]]
                /\ fill_chunk(t, chunk_id, chunk_offset, element_count, 0)
           ELSE /\ sd' = [sd EXCEPT ![t] = [chunk_id |-> chunk_id,
                          chunk_offset |-> chunk_offset, element_count |-> element_count,
                          source_offset |-> 0, stage |-> "first"]]
                /\ fill_chunk(t, chunk_id, chunk_offset, chunk_size_ - chunk_offset, 0)

\* the middle loop test and the final partition, with the locals l as they stand
SetDataRest(t, l) ==
    IF l.element_count >= chunk_size_
    THEN /\ sd' = [sd EXCEPT ![t] = [l EXCEPT !.stage = "middle"]]
         /\ fill_chunk(t, l.chunk_id, 0, chunk_size_, l.source_offset)
         /\ UNCHANGED <<size, index>>
    ELSE IF l.element_count > 0
    THEN /\ sd' = [sd EXCEPT ![t] = [l EXCEPT !.stage = "final"]]
         /\ fill_chunk(t, l.chunk_id, 0, l.element_count, l.source_offset)
         /\ UNCHANGED <<size, index>>
    ELSE Return(t)

\* mutant: after the first partition source_offset advances by a whole chunk
SetDataNext_whole_chunk(t) ==
    LET l == sd[t]
    IN  CASE l.stage = "first" ->
                  SetDataRest(t, [l EXCEPT
                      !.source_offset = l.source_offset + chunk_size_,
                      !.element_count = l.element_count - (chunk_size_ - l.chunk_offset),
                      !.chunk_id = l.chunk_id + 1])
             [] l.stage = "middle" ->
                  SetDataRest(t, [l EXCEPT
                      !.source_offset = l.source_offset + chunk_size_,
                      !.element_count = l.element_count - chunk_size_,
                      !.chunk_id = l.chunk_id + 1])
             [] OTHER -> Return(t)

\* set_data after a fill_chunk has returned
SetDataNext(t) ==
    LET l == sd[t]
    IN  CASE l.stage = "first" ->
                  SetDataRest(t, [l EXCEPT
                      !.source_offset = l.source_offset + (chunk_size_ - l.chunk_offset),
                      !.element_count = l.element_count - (chunk_size_ - l.chunk_offset),
                      !.chunk_id = l.chunk_id + 1])
             [] l.stage = "middle" ->
                  SetDataRest(t, [l EXCEPT
                      !.source_offset = l.source_offset + chunk_size_,
                      !.element_count = l.element_count - chunk_size_,
                      !.chunk_id = l.chunk_id + 1])
             [] OTHER -> Return(t)

\* the element count of the growth thread t is running
GrowthOf(t) ==
    IF call[t].name = "set_data" THEN call[t].offset + call[t].count ELSE call[t].count

\* emplace_to_at_least returns into grow_to_at_least, which returns to the caller
\* or into set_data
EmplaceReturn(t) ==
    /\ max_returned' = Max(max_returned, GrowthOf(t))
    /\ IF call[t].name = "set_data"
       THEN /\ SetDataSplit(t)
            /\ size' = [size EXCEPT ![t] = 0]
            /\ UNCHANGED index
       ELSE Return(t)

\* -------------------------------------- ThreadSafeVector::emplace_to_at_least
\* mutant: the fast path returns one chunk early
FastPath_one_short(t) == size[t] <= size_ + 1

\* mutant: a target equal to the published count takes the slow path
FastPath_strict(t) == size[t] < size_

\* if (size <= size_) return;
FastPath(t) == size[t] <= size_

EmplaceCheck(t) ==
    /\ ~aborted
    /\ pc[t] = "emplace_check"
    /\ IF FastPath(t)
       THEN EmplaceReturn(t)
       ELSE /\ pc' = [pc EXCEPT ![t] = "emplace_lock"]
            /\ UNCHANGED <<size, index, sd, fill, max_returned>>
    /\ UNCHANGED <<shared_vars, config_vars, aborted, call, ref, result, ncalls, written,
                   max_requested, ret_at_start>>

\* std::lock_guard lck(mutex_): exclusive ownership of the shared_mutex
CanLock == mutex_.excl = NoThread /\ mutex_.shared = {}

EmplaceLock(t) ==
    /\ ~aborted
    /\ pc[t] = "emplace_lock"
    /\ CanLock
    /\ mutex_' = [mutex_ EXCEPT !.excl = t]
    /\ pc' = [pc EXCEPT ![t] = "emplace_loop"]
    /\ UNCHANGED <<size_, vec_, allocated, config_vars, aborted, call, size, index, ref,
                   sd, fill, result, ncalls, written, max_requested, max_returned,
                   ret_at_start>>

\* mutant: the new chunk goes to the front, shifting every index
emplace_front(n) == <<[addr |-> allocated + 1, data |-> Chunk(n)]>> \o vec_

\* mutant: a contiguous vector that reallocates, moving every chunk to a new address
emplace_back_realloc(n) ==
    Append([i \in 1..Len(vec_) |-> [vec_[i] EXCEPT !.addr = -(@)]],
           [addr |-> allocated + 1, data |-> Chunk(n)])

\* vec_.emplace_back(args): a deque appends without moving its elements
emplace_back(n) == Append(vec_, [addr |-> allocated + 1, data |-> Chunk(n)])

\* mutant: the loop runs once too often
LoopCondition_one_more(t) == Len(vec_) <= size[t]

\* while (vec_.size() < size)
LoopCondition(t) == Len(vec_) < size[t]

\* mutant: the exclusive lock is not released at the end of the function
unlock_missing == mutex_

\* ~lock_guard: mutex_.unlock()
unlock == [mutex_ EXCEPT !.excl = NoThread]

\* the loop test, then either emplace_back or the end of the function (unlock)
EmplaceLoop(t) ==
    /\ ~aborted
    /\ pc[t] = "emplace_loop"
    /\ IF LoopCondition(t)
       THEN /\ vec_' = emplace_back(Dim * chunk_size_)
            /\ allocated' = allocated + 1
            /\ pc' = [pc EXCEPT ![t] = "emplace_inc"]
            /\ UNCHANGED <<mutex_, size, index, sd, fill, max_returned>>
       ELSE /\ mutex_' = unlock
            /\ EmplaceReturn(t)
            /\ UNCHANGED <<vec_, allocated>>
    /\ UNCHANGED <<size_, config_vars, aborted, call, ref, result, ncalls, written,
                   max_requested, ret_at_start>>

\* mutant: the counter is set to the requested size after the first append
EmplaceInc_publish_target(t) ==
    /\ ~aborted
    /\ pc[t] = "emplace_inc"
    /\ size_' = size[t]
    /\ pc' = [pc EXCEPT ![t] = "emplace_loop"]
    /\ UNCHANGED <<vec_, mutex_, allocated, config_vars, aborted, call, size, index, ref,
                   sd, fill, result, ncalls, written, max_requested, max_returned,
                   ret_at_start>>

\* ++size_
EmplaceInc(t) ==
    /\ ~aborted
    /\ pc[t] = "emplace_inc"
    /\ size_' = size_ + 1
    /\ pc' = [pc EXCEPT ![t] = "emplace_loop"]
    /\ UNCHANGED <<vec_, mutex_, allocated, config_vars, aborted, call, size, index, ref,
                   sd, fill, result, ncalls, written, max_requested, max_returned,
                   ret_at_start>>

\* ----------------------------------------------- ThreadSafeVector::size
\* num_chunk() returns chunks_.size(), a load of the atomic size_
NumChunkCall(t) ==
    /\ StartCall(t, "num_chunk", 0, 0, <<size_>>)
    /\ Return(t)
    /\ UNCHANGED <<shared_vars, config_vars, aborted, max_requested, max_returned>>

\* ----------------------------------------------- ConcurrentVectorImpl::set_data
\* mutant: the growth comes before the test of element_count
SetDataCall_grow_first(t, element_offset, element_count) ==
    /\ NoRace(t, element_offset .. (element_offset + element_count - 1), {})
    /\ StartCall(t, "set_data", element_offset, element_count, <<>>)
    /\ grow_to_at_least(t, element_offset + element_count)
    /\ UNCHANGED <<index, sd, fill>>
    /\ UNCHANGED <<shared_vars, config_vars, aborted, max_returned>>

\* if (element_count == 0) return;  else  this->grow_to_at_least(offset + count)
SetDataCall(t, element_offset, element_count) ==
    /\ NoRace(t, element_offset .. (element_offset + element_count - 1), {})
    /\ StartCall(t, "set_data", element_offset, element_count, <<>>)
    /\ IF element_count = 0
       THEN /\ Return(t)
            /\ UNCHANGED max_requested
       ELSE /\ grow_to_at_least(t, element_offset + element_count)
            /\ UNCHANGED <<index, sd, fill>>
    /\ UNCHANGED <<shared_vars, config_vars, aborted, max_returned>>

\* -------------------------------------------- ConcurrentVectorImpl::fill_chunk
\* if (element_count <= 0) return; chunk_max_size = chunks_.size();
\* the assertion chunk_id < chunk_max_size; then the call chunks_[chunk_id]
FillChunk(t) ==
    /\ ~aborted
    /\ pc[t] = "fill_chunk"
    /\ IF fill[t].element_count <= 0
       THEN /\ SetDataNext(t)
            /\ UNCHANGED aborted
       ELSE IF fill[t].chunk_id < size_
       THEN /\ index' = [index EXCEPT ![t] = fill[t].chunk_id]
            /\ pc' = [pc EXCEPT ![t] = "index_check"]
            /\ UNCHANGED <<aborted, size, sd, fill>>
       ELSE /\ aborted' = TRUE
            /\ UNCHANGED <<pc, size, index, sd, fill>>
    /\ UNCHANGED <<shared_vars, config_vars, call, ref, result, ncalls, written,
                   max_requested, max_returned, ret_at_start>>

\* the position in vec_ of the chunk at address a (0 when there is none)
Slot(a) ==
    IF \E i \in 1..Len(vec_) : vec_[i].addr = a
    THEN CHOOSE i \in 1..Len(vec_) : vec_[i].addr = a
    ELSE 0

\* mutant: one component too many is copied
copy_n_one_more(data, t, source_offset, element_count, chunk_offset) ==
    [p \in DOMAIN data |->
        IF /\ p - 1 >= chunk_offset * Dim
           /\ p - 1 <= chunk_offset * Dim + element_count * Dim
        THEN Source(t, source_offset * Dim + (p - 1 - chunk_offset * Dim))
        ELSE data[p]]

\* mutant: the destination is ptr, without chunk_offset * Dim
copy_n_at_chunk_start(data, t, source_offset, element_count, chunk_offset) ==
    [p \in DOMAIN data |->
        IF p - 1 < element_count * Dim
        THEN Source(t, source_offset * Dim + (p - 1))
        ELSE data[p]]

\* mutant: the segment is copied into a fresh buffer that replaces the chunk's
copy_n_onto_fresh(data, t, source_offset, element_count, chunk_offset) ==
    [p \in DOMAIN data |->
        IF /\ p - 1 >= chunk_offset * Dim
           /\ p - 1 < chunk_offset * Dim + element_count * Dim
        THEN Source(t, source_offset * Dim + (p - 1 - chunk_offset * Dim))
        ELSE DefaultValue]

\* std::copy_n(source + source_offset * Dim, element_count * Dim,
\*             ptr + chunk_offset * Dim) into the buffer data
copy_n(data, t, source_offset, element_count, chunk_offset) ==
    [p \in DOMAIN data |->
        IF /\ p - 1 >= chunk_offset * Dim
           /\ p - 1 < chunk_offset * Dim + element_count * Dim
        THEN Source(t, source_offset * Dim + (p - 1 - chunk_offset * Dim))
        ELSE data[p]]

\* auto ptr = chunk.data(); std::copy_n(...); fill_chunk returns into set_data
FillCopy(t) ==
    /\ ~aborted
    /\ pc[t] = "fill_copy"
    /\ Slot(ref[t]) # 0
    /\ vec_' = [vec_ EXCEPT ![Slot(ref[t])].data =
                    copy_n(@, t, fill[t].source_offset, fill[t].element_count,
                           fill[t].chunk_offset)]
    /\ SetDataNext(t)
    /\ UNCHANGED <<size_, mutex_, allocated, config_vars, aborted, call, ref, result,
                   ncalls, written, max_requested, max_returned, ret_at_start>>

\* ------------------------------------------- ThreadSafeVector::operator[]
\* get_chunk(chunk_index) returns chunks_[chunk_index]
GetChunkCall(t, chunk_index) ==
    /\ StartCall(t, "get_chunk", chunk_index, 0, <<>>)
    /\ index' = [index EXCEPT ![t] = chunk_index]
    /\ pc' = [pc EXCEPT ![t] = "index_check"]
    /\ UNCHANGED <<shared_vars, config_vars, aborted, size, sd, fill, max_requested,
                   max_returned>>

\* get_element(element_index): chunk_id = element_index / chunk_size_, get_chunk(chunk_id)
GetElementCall(t, element_index) ==
    /\ NoRace(t, {}, {element_index})
    /\ StartCall(t, "get_element", element_index, 0, <<>>)
    /\ index' = [index EXCEPT ![t] = CDiv(element_index, chunk_size_)]
    /\ pc' = [pc EXCEPT ![t] = "index_check"]
    /\ UNCHANGED <<shared_vars, config_vars, aborted, size, sd, fill, max_requested,
                   max_returned>>

\* mutant: an index equal to the published count passes
IndexInRange_inclusive(t) == index[t] <= size_

\* the asserted condition index < size_, a comparison of two int64_t
IndexInRange(t) == index[t] < size_

\* the assertion index < size_
IndexCheck(t) ==
    /\ ~aborted
    /\ pc[t] = "index_check"
    /\ IF IndexInRange(t)
       THEN /\ pc' = [pc EXCEPT ![t] = "index_lock"]
            /\ UNCHANGED aborted
       ELSE /\ aborted' = TRUE
            /\ UNCHANGED pc
    /\ UNCHANGED <<shared_vars, config_vars, call, size, index, ref, sd, fill, result,
                   ncalls, written, max_requested, max_returned, ret_at_start>>

\* mutant: readers do not wait for the exclusive owner
CanLockShared_always == TRUE

\* shared ownership of the shared_mutex is granted while no thread owns it exclusively
CanLockShared == mutex_.excl = NoThread

\* std::shared_lock lck(mutex_)
IndexLock(t) ==
    /\ ~aborted
    /\ pc[t] = "index_lock"
    /\ CanLockShared
    /\ mutex_' = [mutex_ EXCEPT !.shared = @ \cup {t}]
    /\ pc' = [pc EXCEPT ![t] = "index_ref"]
    /\ UNCHANGED <<size_, vec_, allocated, config_vars, aborted, call, size, index, ref,
                   sd, fill, result, ncalls, written, max_requested, max_returned,
                   ret_at_start>>

\* the process dies of an invalid memory access made by thread t
Crash(t) ==
    /\ aborted' = TRUE
    /\ pc' = [pc EXCEPT ![t] = "crashed"]

\* vec_[index]: std::deque::operator[] takes a size_type and checks nothing; with
\* index outside [0, vec_.size()) the behaviour is undefined: the reference
\* designates no chunk or happens to designate one
subscript(i) ==
    IF i \in 0..(Len(vec_) - 1)
    THEN {vec_[i + 1].addr}
    ELSE {WildRef} \cup {vec_[j].addr : j \in 1..Len(vec_)}

\* return vec_[index]; the shared lock is released on the way out
IndexRef(t) ==
    /\ ~aborted
    /\ pc[t] = "index_ref"
    /\ \/ /\ \E a \in subscript(index[t]) : ref' = [ref EXCEPT ![t] = a]
          /\ mutex_' = [mutex_ EXCEPT !.shared = @ \ {t}]
          /\ IF call[t].name = "set_data"
             THEN /\ pc' = [pc EXCEPT ![t] = "fill_copy"]
                  /\ UNCHANGED <<size, index, sd, fill>>
             ELSE IF call[t].name = "get_element"
             THEN /\ pc' = [pc EXCEPT ![t] = "element_read"]
                  /\ UNCHANGED <<size, index, sd, fill>>
             ELSE Return(t)
          /\ UNCHANGED aborted
       \/ /\ index[t] \notin 0..(Len(vec_) - 1)
          /\ Crash(t)
          /\ UNCHANGED <<mutex_, ref, size, index, sd, fill>>
    /\ UNCHANGED <<size_, vec_, allocated, config_vars, call, result, ncalls, written,
                   max_requested, max_returned, ret_at_start>>

\* the Dim components at get_chunk(chunk_id).data() + chunk_offset * Dim, read by
\* the caller of get_element
\* with the pointer outside the chunk's buffer (a reference that designates no
\* chunk, or a negative chunk_offset) the read is undefined: it yields whatever
\* lies there, or the process dies
ElementRead(t) ==
    /\ ~aborted
    /\ pc[t] = "element_read"
    /\ LET chunk_offset == CMod(call[t].offset, chunk_size_)
           inside == Slot(ref[t]) # 0 /\ chunk_offset >= 0
       IN  \/ /\ inside
              /\ result' = [result EXCEPT ![t] =
                     [d \in 1..Dim |-> vec_[Slot(ref[t])].data[chunk_offset * Dim + d]]]
              /\ Return(t)
              /\ UNCHANGED aborted
           \/ /\ ~inside
              /\ result' = [result EXCEPT ![t] = [d \in 1..Dim |-> Garbage]]
              /\ Return(t)
              /\ UNCHANGED aborted
           \/ /\ ~inside
              /\ Crash(t)
              /\ UNCHANGED <<result, size, index, sd, fill>>
    /\ UNCHANGED <<shared_vars, config_vars, call, ref, ncalls, written, max_requested,
                   max_returned, ret_at_start>>

\* get_element(element_index): the Dim components at
\* get_chunk(element_index / chunk_size_).data() + (element_index % chunk_size_) * Dim
get_element(element_index) ==
    [d \in 1..Dim |->
        vec_[CDiv(element_index, chunk_size_) + 1]
            .data[CMod(element_index, chunk_size_) * Dim + d]]

\* the caller takes the returned value and goes on
Resume(t) ==
    /\ ~aborted
    /\ pc[t] = "returned"
    /\ pc' = [pc EXCEPT ![t] = "idle"]
    /\ call' = [call EXCEPT ![t] = NoCall]
    /\ ref' = [ref EXCEPT ![t] = NoRef]
    /\ result' = [result EXCEPT ![t] = <<>>]
    /\ ret_at_start' = [ret_at_start EXCEPT ![t] = 0]
    /\ UNCHANGED <<shared_vars, config_vars, aborted, size, index, sd, fill, ncalls,
                   written,
                   max_requested, max_returned>>

\* ------------------------------------------------------------ specification

\* a caller on thread t starts a call that may grow the column
Writers(t, elements) ==
    \/ \E n \in 0..elements : GrowCall(t, n)
    \/ \E o \in 0..elements : \E c \in 0..(elements - o) : SetDataCall(t, o, c)

\* a caller on thread t starts a call that reads; its chunk indices start at -below
Readers(t, below, elements) ==
    \/ \E i \in (-below)..elements : GetChunkCall(t, i)
    \/ \E i \in (-below * chunk_size_)..(elements - 1) : GetElementCall(t, i)
    \/ NumChunkCall(t)

\* thread t takes the next step of its call
Steps(t) ==
    \/ EmplaceCheck(t)
    \/ EmplaceLock(t)
    \/ EmplaceLoop(t)
    \/ EmplaceInc(t)
    \/ FillChunk(t)
    \/ FillCopy(t)
    \/ IndexCheck(t)
    \/ IndexLock(t)
    \/ IndexRef(t)
    \/ ElementRead(t)
    \/ Resume(t)

Next ==
    \E t \in Threads :
        \/ ncalls < MaxCalls /\ Writers(t, MaxElements)
        \/ Readers(t, 0, MaxElements)
        \/ Steps(t)

Spec == Init /\ [][Next]_vars

\* one thread, more elements and larger chunks
NextSeq ==
    \/ ncalls < SeqMaxCalls /\ Writers(1, SeqMaxElements)
    \/ Readers(1, SeqBelow, SeqMaxElements)
    \/ Steps(1)

SpecSeq == InitSeq /\ [][NextSeq]_vars

\* callers as in Spec, within the bounds of the specification with fairness
NextFair ==
    \E t \in Threads :
        \/ ncalls < FairMaxCalls /\ Writers(t, FairMaxElements)
        \/ Readers(t, 0, FairMaxElements)
        \/ Steps(t)

\* fair lock acquisition: a thread does not wait for mutex_ forever, unless some
\* thread owns mutex_ forever
LockFair(t) ==
    \/ []<>(pc[t] \notin {"emplace_lock", "index_lock"})
    \/ \E u \in Threads : <>[](mutex_.excl = u \/ u \in mutex_.shared)

\* fair scheduling: a thread that can take a step eventually takes one
Fairness ==
    \A t \in Threads : WF_vars(Steps(t)) /\ LockFair(t)

SpecFair == Init /\ [][NextFair]_vars /\ Fairness

\* one thread on a packed binary column
NextBin ==
    \/ ncalls < SeqMaxCalls /\ Writers(1, MaxElements)
    \/ ncalls < SeqMaxCalls /\ GrowCall(1, BinElements)
    \/ Readers(1, 0, MaxElements)
    \/ Steps(1)

SpecBin == InitBin /\ [][NextBin]_vars

\* ------------------------------------------------------------------ claims
Quiescent == \A t \in Threads : pc[t] \in {"idle", "returned"}

\* k is the least number of chunks of chunk_size_ elements that hold n elements
IsCeilChunks(k, n) == k * chunk_size_ >= n /\ (k - 1) * chunk_size_ < n

\* C1: once every call has returned, the published count is the ceiling of the
\* largest requested element count over chunk_size_, vec_ holds exactly that many
\* chunks, each constructed once and in index order, and no further chunk was
\* ever constructed.
C1_GrowersConverge ==
    (Quiescent /\ ~aborted) =>
        /\ IsCeilChunks(size_, max_requested)
        /\ Len(vec_) = size_
        /\ allocated = size_
        /\ \A i \in 1..Len(vec_) : vec_[i].addr = i

\* two growths with different chunk targets, neither started after a growth had
\* returned, have both returned
C1_Witness ==
    /\ \A t \in {1, 2} : pc[t] = "returned" /\ call[t].name = "grow_to_at_least"
                         /\ ret_at_start[t] = 0
    /\ chunk_count(call[1].count) # chunk_count(call[2].count)
    /\ call[1].count > 0 /\ call[2].count > 0
    /\ chunk_size_ = 2

\* C2: when grow_to_at_least(n) has returned (to its caller or into set_data), the
\* published capacity covers n, and every chunk index below the chunk count of n
\* passes the index assertion.
C2_ReturnedGrowthCovers ==
    \A t \in Threads :
        (\/ pc[t] = "returned" /\ call[t].name = "grow_to_at_least"
         \/ pc[t] \in {"fill_chunk", "index_check", "index_lock", "index_ref", "fill_copy"}
            /\ call[t].name = "set_data") =>
            /\ size_ * chunk_size_ >= GrowthOf(t)
            /\ \A i \in 0..MaxElements : i * chunk_size_ < GrowthOf(t) => i < size_

\* a growth has returned while another thread is inside the slow path
C2_Witness ==
    \E t, u \in Threads :
        /\ pc[t] = "returned" /\ call[t].name = "grow_to_at_least" /\ call[t].count > 0
        /\ pc[u] = "emplace_inc"

\* C3: the first call on a fresh column being grow_to_at_least(n), on its return
\* num_chunk() is the ceiling of n over chunk_size_ and the capacity is at least n.
C3_FreshGrowCeil ==
    \A t \in Threads :
        (ncalls = 1 /\ pc[t] = "returned" /\ call[t].name = "grow_to_at_least") =>
            /\ IsCeilChunks(size_, call[t].count)
            /\ Len(vec_) = size_
            /\ size_ * chunk_size_ >= call[t].count

\* n an exact multiple of a chunk size above one
C3_Witness ==
    /\ ncalls = 1 /\ pc[1] = "returned" /\ call[1].name = "grow_to_at_least"
    /\ chunk_size_ = 4 /\ call[1].count = 8 /\ size_ = 2

\* C4: no step of a call grow_to_at_least(m), with m at most the element count of a
\* growth that had returned before the call started, changes vec_, size_ or the
\* number of chunks constructed.
C4_Idempotent ==
    [][\A t \in Threads :
          (/\ call[t].name = "grow_to_at_least"
           /\ call[t].count <= ret_at_start[t]
           /\ pc'[t] # pc[t]) => UNCHANGED <<vec_, size_, allocated>>]_vars

\* grow_to_at_least(m) has returned with m the count of an earlier returned growth
C4_Witness ==
    \E t \in Threads :
        /\ pc[t] = "returned" /\ call[t].name = "grow_to_at_least"
        /\ call[t].count > 0 /\ call[t].count = ret_at_start[t]

\* C5: in every step the published count and the length of vec_ do not decrease,
\* and every chunk stays at its index.
C5_Monotonic ==
    [][/\ size_' >= size_
       /\ Len(vec_') >= Len(vec_)
       /\ \A i \in 1..Len(vec_) : vec_'[i].addr = vec_[i].addr]_vars

\* a chunk is appended behind an existing one while a reader holds a reference
C5_Witness ==
    \E t, u \in Threads :
        /\ pc[t] = "returned" /\ call[t].name = "get_chunk" /\ ref[t] # NoRef
        /\ pc[u] = "emplace_inc" /\ Len(vec_) >= 2

\* C6 as claimed: in every reachable state the published count equals the number
\* of chunks in vec_.
C6_Original == size_ = Len(vec_)

\* C6: the published count equals the number of chunks in vec_ in every state but
\* those between an append and its increment in the slow path, where vec_ holds
\* exactly one chunk more than is published.
C6_PublishedCount ==
    Len(vec_) = size_ + (IF \E t \in Threads : pc[t] = "emplace_inc" THEN 1 ELSE 0)

\* size() has returned a count one below the length of vec_ to another thread
C6_Witness ==
    \E t, u \in Threads :
        /\ pc[t] = "emplace_inc"
        /\ pc[u] = "returned" /\ call[u].name = "num_chunk" /\ result[u] = <<size_>>
        /\ Len(vec_) = size_ + 1

\* C7: every step leaves each existing chunk at its index and address, and its
\* contents change only by the copy of a set_data that holds a reference to it.
C7_AddressStable ==
    [][\A i \in 1..Len(vec_) :
          /\ i <= Len(vec_')
          /\ vec_'[i].addr = vec_[i].addr
          /\ vec_'[i].data # vec_[i].data =>
                \E t \in Threads : pc[t] = "fill_copy" /\ ref[t] = vec_[i].addr]_vars

\* a chunk has just been appended behind a chunk that holds written data
C7_Witness ==
    /\ \E t \in Threads : pc[t] = "emplace_inc"
    /\ Len(vec_) >= 2
    /\ \E p \in DOMAIN vec_[1].data : vec_[1].data[p] # DefaultValue

ElementAllocated(i) == CDiv(i, chunk_size_) < Len(vec_)

\* the components of the k-th element of thread t's source buffer
SourceElement(t, k) == [d \in 1..Dim |-> Source(t, k * Dim + (d - 1))]

DefaultElement == [d \in 1..Dim |-> DefaultValue]

\* what the last set_data that covered element i wrote there
WrittenElement(i) == SourceElement(written[i][1], written[i][2])

\* C8: when set_data(offset, buf, count) with count > 0 has returned, for every k
\* in [0, count) the element at offset + k is allocated and holds, at chunk
\* (offset + k) / chunk_size_ and component ((offset + k) % chunk_size_) * Dim, the
\* components of the k-th element of buf; a get_element call that follows returns them.
C8_RoundTrip ==
    \A t \in Threads :
        /\ (pc[t] = "returned" /\ call[t].name = "set_data" /\ call[t].count > 0) =>
              \A k \in 0..(call[t].count - 1) :
                  /\ ElementAllocated(call[t].offset + k)
                  /\ get_element(call[t].offset + k) = SourceElement(t, k)
        /\ (/\ pc[t] = "returned" /\ call[t].name = "get_element"
            /\ call[t].offset \in DOMAIN written) =>
              result[t] = WrittenElement(call[t].offset)

\* get_element has returned the last element of a range of two-component elements
\* that starts mid-chunk, spans three chunks and ends on a chunk boundary
C8_Witness ==
    /\ pc[1] = "returned" /\ call[1].name = "get_element" /\ call[1].offset = 5
    /\ chunk_size_ = 2 /\ Dim = 2 /\ size_ = 3
    /\ DOMAIN written = 1..5
    /\ result[1] = <<Source(1, 8), Source(1, 9)>>

\* the elements of the set_data call thread t is running or has just returned from
RangeOf(t) ==
    IF call[t].name = "set_data"
    THEN call[t].offset .. (call[t].offset + call[t].count - 1)
    ELSE {}

AllocatedElements == 0 .. (Len(vec_) * chunk_size_ - 1)

BeingWritten(i) ==
    \E u \in Threads : pc[u] # "returned" /\ i \in RangeOf(u)

\* C10: every element of a range whose set_data has returned holds what was
\* written to it, in every state of the growths and disjoint set_data calls of
\* other threads, and get_element of such an element returns those components.
C10_StableReads ==
    /\ \A i \in DOMAIN written :
          ~BeingWritten(i) =>
              ElementAllocated(i) /\ get_element(i) = WrittenElement(i)
    /\ \A t \in Threads :
          (/\ pc[t] = "returned" /\ call[t].name = "get_element"
           /\ call[t].offset \in DOMAIN written) =>
              result[t] = WrittenElement(call[t].offset)

\* a reader has read a written element of the chunk another thread is copying into
C10_Witness ==
    \E t, u \in Threads :
        /\ pc[t] = "returned" /\ call[t].name = "get_element"
        /\ call[t].offset \in DOMAIN written
        /\ pc[u] = "fill_copy" /\ fill[u].chunk_id = CDiv(call[t].offset, chunk_size_)

\* C11: a thread whose index is at or above the published count when the
\* assertion of operator[] reads it does not get past the assertion and receives
\* no reference; whoever is past it, or holds the reference of a get_chunk, had an
\* index below the published count; and the step of such a thread into the
\* fatal-assertion state changes neither vec_, size_, mutex_ nor any reference.
C11_OutOfRangeAborts ==
    /\ [](\A t \in Threads :
              /\ pc[t] \in {"index_lock", "index_ref"} => index[t] < size_
              /\ (call[t].name = "get_chunk" /\ ref[t] # NoRef) => call[t].offset < size_)
    /\ [][\A t \in Threads :
              (pc[t] = "index_check" /\ index[t] >= size_) =>
                  pc'[t] = "index_check" /\ ref'[t] = ref[t]]_vars
    /\ [][(/\ ~aborted /\ aborted'
            /\ \E t \in Threads : pc[t] = "index_check" /\ index[t] >= size_) =>
              UNCHANGED <<shared_vars, ref, pc>>]_vars

\* get_chunk of the chunk that a growth has appended but not yet published has
\* ended in the fatal assertion
C11_Witness ==
    \E t, u \in Threads :
        /\ aborted /\ pc[t] = "index_check" /\ call[t].name = "get_chunk"
        /\ index[t] = size_ /\ size_ > 0
        /\ pc[u] = "emplace_inc" /\ Len(vec_) = size_ + 1

NoCallYet == \A t \in Threads : pc[t] = "idle" /\ ncalls = 0

\* C12: construction of a packed binary column succeeds for every bit width
\* divisible by 8, with Dim the width over 8, and ends in the fatal assertion for
\* every other width; with width 16 and chunk size 100, grow_to_at_least(250) on
\* the fresh column leaves 3 chunks.
C12_BinaryConstruction ==
    /\ (binary_dim_ > 0 /\ NoCallYet) =>
          IF binary_dim_ % 8 = 0
          THEN ~aborted /\ Dim * 8 = binary_dim_
          ELSE aborted
    /\ (/\ binary_dim_ = 16 /\ chunk_size_ = 100
        /\ ncalls = 1 /\ pc[1] = "returned"
        /\ call[1] = [name |-> "grow_to_at_least", offset |-> 0, count |-> 250]) =>
          size_ = 3 /\ Len(vec_) = 3

\* C12 but for the width 8: every width divisible by 8 other than 8 constructs
C12_WidthsAboveEight ==
    /\ (binary_dim_ > 0 /\ NoCallYet) =>
          IF binary_dim_ % 8 = 0 /\ binary_dim_ # 8
          THEN ~aborted /\ Dim * 8 = binary_dim_
          ELSE aborted
    /\ (/\ binary_dim_ = 16 /\ chunk_size_ = 100
        /\ ncalls = 1 /\ pc[1] = "returned"
        /\ call[1] = [name |-> "grow_to_at_least", offset |-> 0, count |-> 250]) =>
          size_ = 3 /\ Len(vec_) = 3

\* width 16, chunk size 100: grow_to_at_least(250) has returned
C12_Example ==
    /\ binary_dim_ = 16 /\ chunk_size_ = 100 /\ Dim = 2
    /\ ncalls = 1 /\ pc[1] = "returned"
    /\ call[1] = [name |-> "grow_to_at_least", offset |-> 0, count |-> 250]
    /\ size_ = 3

\* C13: a thread at the size check of emplace_to_at_least whose target is at most
\* the published count can always take that step, whoever holds mutex_, and the
\* step returns from the growth without touching mutex_; num_chunk() can be
\* called in every state, returns the published count in one step and does not
\* touch mutex_.
C13_LockFreeFastPath ==
    /\ [](\A t \in Threads :
              /\ (~aborted /\ pc[t] = "emplace_check" /\ size[t] <= size_) =>
                    ENABLED EmplaceCheck(t)
              /\ (~aborted /\ pc[t] = "idle") => ENABLED NumChunkCall(t))
    /\ [][\A t \in Threads :
              (pc[t] = "emplace_check" /\ size[t] <= size_ /\ pc'[t] # pc[t]) =>
                  /\ pc'[t] \in {"returned", "fill_chunk"}
                  /\ mutex_' = mutex_]_vars
    /\ [][\A t \in Threads :
              (pc[t] = "idle" /\ call'[t].name = "num_chunk") =>
                  /\ pc'[t] = "returned"
                  /\ result'[t] = <<size_>>
                  /\ mutex_' = mutex_]_vars

\* num_chunk() has returned 1 while the growth that published the first chunk, no
\* growth having returned yet, is still inside the slow path
C13_Witness ==
    \E t, u \in Threads :
        /\ pc[t] = "returned" /\ call[t].name = "num_chunk" /\ result[t] = <<1>>
        /\ max_returned = 0
        /\ pc[u] = "emplace_inc" /\ mutex_.excl = u

\* a growth whose target is already published stands at the size check while
\* another thread holds mutex_ exclusively
C13_FastPathUnderLock ==
    \E t, u \in Threads :
        /\ pc[t] = "emplace_check" /\ size[t] > 0 /\ size[t] <= size_
        /\ mutex_.excl = u

\* thread t is inside a fill_chunk call of set_data, or inside operator[]
InSegment(t) == pc[t] \in {"fill_chunk", "index_check", "index_lock", "index_ref", "fill_copy"}

\* C14: every segment copy of a set_data(offset, buf, count) with count > 0
\* targets a chunk index below the published count, in every state from the entry
\* of fill_chunk to the copy (so neither the assertion of fill_chunk nor that of
\* operator[] can fire for it), and stays inside its chunk; the first segment
\* starts at offset, each later one starts where the one before ended, none is
\* empty, and the last one ends at offset + count.
C14_SegmentsInRange ==
    /\ [](\A t \in Threads :
              (InSegment(t) /\ call[t].count > 0) =>
                  /\ fill[t].chunk_id >= 0 /\ fill[t].chunk_id < size_
                  /\ fill[t].chunk_offset >= 0 /\ fill[t].element_count > 0
                  /\ fill[t].chunk_offset + fill[t].element_count <= chunk_size_
                  /\ fill[t].chunk_id * chunk_size_ + fill[t].chunk_offset
                        = call[t].offset + fill[t].source_offset
                  /\ fill[t].source_offset + fill[t].element_count <= call[t].count)
    /\ [][\A t \in Threads :
              /\ (~InSegment(t) /\ InSegment(t)') => fill'[t].source_offset = 0
              /\ (pc[t] = "fill_copy" /\ pc'[t] = "fill_chunk") =>
                    fill'[t].source_offset = fill[t].source_offset + fill[t].element_count
              /\ (pc[t] = "fill_copy" /\ pc'[t] = "returned") =>
                    fill[t].source_offset + fill[t].element_count = call[t].count]_vars

\* the final segment of a set_data that started mid-chunk is being copied while
\* another thread copies into the chunk of its first segment
C14_Witness ==
    \E t, u \in Threads :
        /\ pc[t] = "fill_copy" /\ sd[t].stage = "final" /\ call[t].offset = 1
        /\ chunk_size_ = 2 /\ fill[t].source_offset = 1
        /\ pc[u] = "fill_copy" /\ call[u].offset = 0 /\ fill[u].chunk_id = 0

\* a set_data has gone through a first, a middle and a final segment
C14_ThreeSegments ==
    /\ pc[1] = "fill_copy" /\ sd[1].stage = "final" /\ chunk_size_ = 3
    /\ call[1].offset = 1 /\ call[1].count = 7 /\ fill[1].source_offset = 5

\* C15: in every state the published count is at most the number of chunks in
\* vec_, so a thread that has seen its index (not negative) below the published
\* count, in the assertion of operator[] or in the size check of a growth, finds
\* a constructed chunk of Dim * chunk_size_ components at every such index.
C15_PublishedAfterAppend ==
    /\ size_ <= Len(vec_)
    /\ \A i \in 1..size_ : Len(vec_[i].data) = Dim * chunk_size_
    /\ \A t \in Threads :
          /\ (pc[t] \in {"index_lock", "index_ref"} /\ index[t] >= 0) =>
                index[t] < Len(vec_)
          /\ (InSegment(t) /\ call[t].name = "set_data") =>
                fill[t].chunk_id < Len(vec_)

\* a reader that saw the last published index waits for the shared lock while the
\* growth holding mutex_ has appended a chunk it has not published
C15_Witness ==
    \E t, u \in Threads :
        /\ pc[t] = "index_lock" /\ index[t] = size_ - 1
        /\ pc[u] = "emplace_inc" /\ Len(vec_) = size_ + 1

\* C16: no thread indexes vec_ inside operator[] while another is inside the slow
\* path of emplace_to_at_least; at most one thread is inside the slow path, and it
\* is the exclusive owner of mutex_; the threads indexing vec_ are the shared
\* owners.
C16_ReaderGrowerExclusion ==
    LET in_slow_path == {t \in Threads : pc[t] \in {"emplace_loop", "emplace_inc"}}
        in_subscript == {t \in Threads : pc[t] = "index_ref"}
    IN  /\ in_slow_path = {} \/ in_subscript = {}
        /\ Cardinality(in_slow_path) <= 1
        /\ in_slow_path = {mutex_.excl} \ {NoThread}
        /\ in_subscript = mutex_.shared

\* two readers hold the shared lock at once
C16_Witness == mutex_.shared = {1, 2} /\ pc[1] = "index_ref" /\ pc[2] = "index_ref"

\* a reader waits for the shared lock while a growth is inside the slow path
C16_ReaderWaits ==
    \E t, u \in Threads :
        pc[t] = "index_lock" /\ pc[u] = "emplace_inc" /\ ~ENABLED IndexLock(t)

Pending(t) == pc[t] \notin {"idle", "returned"}

\* C17: every call in progress eventually returns, unless the process ends in a
\* fatal assertion (an out-of-range get_chunk), and in no state short of that is a
\* call pending with no thread able to take a step.
C17_Termination ==
    /\ \A t \in Threads : Pending(t) ~> (pc[t] = "returned" \/ aborted)
    /\ []((~aborted /\ \E t \in Threads : Pending(t)) =>
              ENABLED (\E t \in Threads : Steps(t)))

\* a set_data over two chunks and a get_chunk have both returned
C17_Witness ==
    \E t, u \in Threads :
        /\ pc[t] = "returned" /\ call[t].name = "set_data" /\ call[t].count = 2
        /\ chunk_size_ = 1
        /\ pc[u] = "returned" /\ call[u].name = "get_chunk" /\ ref[u] # NoRef

\* C18: a call set_data(offset, buf, 0) returns in its first step, at any offset,
\* and that step changes neither size_, vec_ and its chunks, mutex_ nor the number
\* of chunks constructed; no later step belongs to the call.
C18_ZeroCountNoOp ==
    /\ [][\A t \in Threads :
              (pc[t] = "idle" /\ call'[t].name = "set_data" /\ call'[t].count = 0) =>
                  /\ pc'[t] = "returned"
                  /\ UNCHANGED <<size_, vec_, mutex_, allocated>>]_vars
    /\ [](\A t \in Threads :
              (call[t].name = "set_data" /\ call[t].count = 0) => pc[t] = "returned")

\* set_data(offset, buf, 0) has returned with offset beyond the allocated
\* capacity of a column that holds a chunk
C18_Witness ==
    \E t \in Threads :
        /\ pc[t] = "returned" /\ call[t].name = "set_data" /\ call[t].count = 0
        /\ size_ = 1 /\ Len(vec_) = 1 /\ call[t].offset > size_ * chunk_size_

\* C19: once every call has returned, each range of a returned set_data holds
\* the data of that call, every element a set_data covered holds what the last
\* such call wrote there, and the number of chunks is the ceiling of the largest
\* offset + count over chunk_size_.
C19_NoLostWrite ==
    (Quiescent /\ ~aborted) =>
        /\ \A t \in Threads :
              (pc[t] = "returned" /\ call[t].name = "set_data") =>
                  \A k \in 0..(call[t].count - 1) :
                      get_element(call[t].offset + k) = SourceElement(t, k)
        /\ \A i \in DOMAIN written : get_element(i) = WrittenElement(i)
        /\ IsCeilChunks(size_, max_requested)
        /\ Len(vec_) = size_

\* two set_data calls, neither started after a growth had returned, have both
\* returned: one wrote the first element of chunk 0, the other its second element
\* and the first of chunk 1
C19_Witness ==
    /\ \A t \in Threads : pc[t] = "returned" /\ ret_at_start[t] = 0
    /\ chunk_size_ = 2
    /\ call[1] = [name |-> "set_data", offset |-> 0, count |-> 1]
    /\ call[2] = [name |-> "set_data", offset |-> 1, count |-> 2]
    /\ size_ = 2

\* C20: a thread gets past the assertion of operator[] only with a chunk index in
\* [0, published count), and vec_ is subscripted only with an index in
\* [0, number of chunks); the read of get_element stays inside the chunk's buffer.
C20_IndexedInRange ==
    \A t \in Threads :
        /\ pc[t] \in {"index_lock", "index_ref"} => (index[t] >= 0 /\ index[t] < size_)
        /\ pc[t] = "index_ref" => index[t] \in 0..(Len(vec_) - 1)
        /\ pc[t] = "element_read" =>
              (Slot(ref[t]) # 0 /\ CMod(call[t].offset, chunk_size_) >= 0)
        /\ pc[t] # "crashed"

\* get_chunk(-1) on a column without chunks has returned a reference that
\* designates no chunk
C20_WildReference ==
    /\ size_ = 0 /\ vec_ = <<>>
    /\ pc[1] = "returned" /\ call[1].name = "get_chunk" /\ call[1].offset = -1
    /\ ref[1] = WildRef

\* get_element(-1) has read below the buffer of chunk 0 and returned what lies there
C20_ReadBelowChunk ==
    /\ pc[1] = "returned" /\ call[1].name = "get_element" /\ call[1].offset = -1
    /\ chunk_size_ = 2 /\ ref[1] = vec_[1].addr
    /\ result[1] = [d \in 1..Dim |-> Garbage]

====
